---- MODULE Spec2Model ----
(***************************************************************************)
(* Model of GameEngine (src/src/game_engine.py): the conversation          *)
(* transcript, the state summary and the token totals, as changed by       *)
(* initialize_game and process_turn.  The chat backend is the environment: *)
(* every chain invocation either returns a text or raises, and so does     *)
(* every reading of a prompt template file.                                *)
(*                                                                         *)
(* Representation.  A message is a record [role, content] with role        *)
(* "system" (SystemMessage), "human" (HumanMessage) or "ai" (AIMessage).   *)
(* A Python str built by "\n".join is the sequence of its lines, a line    *)
(* "User: c" being the pair <<"User", c>>.  Python's None is the string    *)
(* NoneValue, which no input or backend text equals.  Record fields are     *)
(* written in one fixed order throughout.                                  *)
(***************************************************************************)
EXTENDS Integers, Sequences, FiniteSets, TLC

VARIABLES
    max_history,          \* self.config.max_history, fixed at construction
    messages,             \* self.messages
    state_message,        \* self.state_message
    total_input_tokens,   \* self.total_input_tokens
    total_output_tokens,  \* self.total_output_tokens
    initialized,          \* an initialize_game call has returned on this engine
    last                  \* observation of the last call: what was asked,
                          \* the backend calls it made, and what it gave back

vars == <<max_history, messages, state_message, total_input_tokens,
          total_output_tokens, initialized, last>>

-----------------------------------------------------------------------------
(* Bounds of the model. *)

\* process_turn is explored while the transcript has at most this many entries
MaxLen == 5
\* the same, on an engine on which initialize_game has not returned yet
MaxLenUninitialized == 1
\* config.max_history ranges over 1..MaxHistoryTop
MaxHistoryTop == 5
\* the token totals are explored up to this value
MaxTokens == 2

-----------------------------------------------------------------------------
(* Values. *)

NoneValue == "<None>"
\* the outcome of a backend invocation that raises
Raise == "<raise>"

\* contents of templates/system_prompt.md and templates/character_setting_setup.md
SystemPrompt == "system_prompt.md"
SetupPrompt == "character_setting_setup.md"

Sentinel == "Start the adventure!"
StartDirective == "Start the adventure with the selected character and setting!"

\* texts the backend may return
BackendTexts == {"x", "y"}
BackendOutcomes == BackendTexts \cup {Raise}
\* outcomes of the character-options call
OptionOutcomes == {"o", Raise}
\* outcomes of re-reading the two prompt templates in initialize_game:
\* _load_prompt returns their text, or raises FileNotFoundError
LoadOutcomes == {"loaded", Raise}
\* what the player may type in a turn
UserInputs == {"a", "b"}
\* arguments of initialize_game: absent, empty, the sentinel, a real selection
Selections == {NoneValue, "", Sentinel, "a"}
\* (prompt_tokens, completion_tokens) the callback may have counted in a turn
TokenUse == {<<0, 0>>, <<2, 1>>}

SystemMessage(c) == [role |-> "system", content |-> c]
HumanMessage(c) == [role |-> "human", content |-> c]
AIMessage(c) == [role |-> "ai", content |-> c]

Max(a, b) == IF a >= b THEN a ELSE b

\* Python s[k:] for k >= 0
SliceFrom(s, k) == IF k >= Len(s) THEN <<>> ELSE SubSeq(s, k + 1, Len(s))
\* Python s[-k:] for k > 0
SliceLast(s, k) == IF k >= Len(s) THEN s ELSE SubSeq(s, Len(s) - k + 1, Len(s))

-----------------------------------------------------------------------------
(* _format_conversation_history *)

FormatLine(msg) ==
    <<IF msg.role = "human" THEN "User" ELSE "Assistant", msg.content>>

FormatHistoryKeepSystem(msgs, skip_system, start_idx) ==
    [i \in 1..Len(msgs) |-> FormatLine(msgs[i])]

format_conversation_history(msgs, skip_system, start_idx) ==
    LET messages_to_format == IF skip_system THEN SliceFrom(msgs, start_idx)
                                             ELSE msgs
    IN  [i \in 1..Len(messages_to_format) |-> FormatLine(messages_to_format[i])]

-----------------------------------------------------------------------------
(* The backend calls, as recorded in last.calls. *)

CharacterCall(result) ==
    [result |-> result, chain |-> "character", args |-> <<>>]
StoryCall(history, state, user_input, result) ==
    [result |-> result, chain |-> "story", args |-> <<history, state, user_input>>]
\* story_text = history + "\n\n" + story_text
StateCall(history, story_text, result) ==
    [result |-> result, chain |-> "state", args |-> <<history, story_text>>]

-----------------------------------------------------------------------------
(* initialize_game *)

\* self.messages = [SystemMessage, HumanMessage(setup), AIMessage(options_text)]
InitialMessages(options_text) ==
    <<SystemMessage(SystemPrompt), HumanMessage(SetupPrompt), AIMessage(options_text)>>

\* `not character_selection`: None and "" are falsy
NoSelection(character_selection) ==
    character_selection \in {NoneValue, ""}

\* self.messages.extend([HumanMessage(content=character_selection)])
WithSelection(msgs, character_selection) ==
    Append(msgs, HumanMessage(character_selection))

GeneratesStoryAlways(character_selection) ==
    TRUE

\* character_selection != "Start the adventure!"
GeneratesStory(character_selection) ==
    character_selection # Sentinel

initialize_game_extends(character_selection, optionsRes, promptRes, storyRes, msgs, sm) ==
    IF optionsRes = Raise
    THEN [messages |-> msgs, outcome |-> "raise", ret |-> <<>>,
          calls |-> <<CharacterCall(Raise)>>]
    ELSE
    \* _load_prompt raises inside the list literal: self.messages is not assigned
    IF promptRes = Raise
    THEN [messages |-> msgs, outcome |-> "raise", ret |-> <<>>,
          calls |-> <<CharacterCall(optionsRes)>>]
    ELSE
    LET seeded == msgs \o InitialMessages(optionsRes) IN
    IF NoSelection(character_selection)
    THEN [messages |-> seeded, outcome |-> "ok", ret |-> <<optionsRes, "">>,
          calls |-> <<CharacterCall(optionsRes)>>]
    ELSE
    LET selected == WithSelection(seeded, character_selection) IN
    IF GeneratesStory(character_selection)
    THEN LET directed == Append(selected, HumanMessage(StartDirective))
             history == format_conversation_history(directed, TRUE, 1)
             call == StoryCall(history, sm, directed[Len(directed)].content, storyRes)
         IN  IF storyRes = Raise
             THEN [messages |-> directed, outcome |-> "raise", ret |-> <<>>,
                   calls |-> <<CharacterCall(optionsRes), call>>]
             ELSE [messages |-> Append(directed, AIMessage(storyRes)),
                   outcome |-> "ok", ret |-> <<optionsRes, storyRes>>,
                   calls |-> <<CharacterCall(optionsRes), call>>]
    ELSE [messages |-> selected, outcome |-> "ok", ret |-> <<optionsRes, "">>,
          calls |-> <<CharacterCall(optionsRes)>>]

\* The whole method: the transcript it leaves, whether it returned or raised,
\* the returned <<options, initial_story>>, and the backend calls it made.
\* It can raise at three places: the options call (line 76), the re-reading
\* of the prompt templates (lines 80-81) and the story call (line 107).
initialize_game(character_selection, optionsRes, promptRes, storyRes, msgs, sm) ==
    IF optionsRes = Raise
    THEN [messages |-> msgs, outcome |-> "raise", ret |-> <<>>,
          calls |-> <<CharacterCall(Raise)>>]
    ELSE
    \* _load_prompt raises inside the list literal: self.messages is not assigned
    IF promptRes = Raise
    THEN [messages |-> msgs, outcome |-> "raise", ret |-> <<>>,
          calls |-> <<CharacterCall(optionsRes)>>]
    ELSE
    LET seeded == InitialMessages(optionsRes) IN
    IF NoSelection(character_selection)
    THEN [messages |-> seeded, outcome |-> "ok", ret |-> <<optionsRes, "">>,
          calls |-> <<CharacterCall(optionsRes)>>]
    ELSE
    LET selected == WithSelection(seeded, character_selection) IN
    IF GeneratesStory(character_selection)
    THEN LET directed == Append(selected, HumanMessage(StartDirective))
             history == format_conversation_history(directed, TRUE, 1)
             call == StoryCall(history, sm, directed[Len(directed)].content, storyRes)
         IN  IF storyRes = Raise
             THEN [messages |-> directed, outcome |-> "raise", ret |-> <<>>,
                   calls |-> <<CharacterCall(optionsRes), call>>]
             ELSE [messages |-> Append(directed, AIMessage(storyRes)),
                   outcome |-> "ok", ret |-> <<optionsRes, storyRes>>,
                   calls |-> <<CharacterCall(optionsRes), call>>]
    ELSE [messages |-> selected, outcome |-> "ok", ret |-> <<optionsRes, "">>,
          calls |-> <<CharacterCall(optionsRes)>>]

-----------------------------------------------------------------------------
(* process_turn *)

\* self.messages.append(HumanMessage(content=user_input))
AppendUserInput(msgs, user_input) ==
    Append(msgs, HumanMessage(user_input))

UpdateStateKeepFirst(sm, current_state) ==
    IF sm = NoneValue THEN current_state ELSE sm

\* self.state_message = current_state
UpdateState(sm, current_state) ==
    current_state

AppendResponseAsUser(msgs, story_text) ==
    Append(msgs, HumanMessage(story_text))

\* self.messages.append(AIMessage(content=story_text))
AppendResponse(msgs, story_text) ==
    Append(msgs, AIMessage(story_text))

MaintainHistoryNoPin(msgs, mh) ==
    IF Len(msgs) > mh THEN SliceLast(msgs, Max(4, mh)) ELSE msgs

MaintainHistoryNoMinimum(msgs, mh) ==
    IF Len(msgs) > mh THEN <<msgs[1]>> \o SliceLast(msgs, mh) ELSE msgs

MaintainHistoryKeepFive(msgs, mh) ==
    IF Len(msgs) > mh THEN <<msgs[1]>> \o SliceLast(msgs, Max(5, mh)) ELSE msgs

\* if len(self.messages) > max_history:
\*     self.messages = [self.messages[0]] + self.messages[-max(4, max_history):]
MaintainHistory(msgs, mh) ==
    IF Len(msgs) > mh
    THEN LET min_messages_to_keep == 4
             keep_count == Max(min_messages_to_keep, mh)
         IN  <<msgs[1]>> \o SliceLast(msgs, keep_count)
    ELSE msgs

\* The whole method.  pre is the transcript as it stood when the method stopped
\* appending (before the history is maintained, on success).
process_turn_append_early(user_input, storyRes, stateRes, tok, msgs, sm, tin, tout, mh) ==
    LET appended == AppendUserInput(msgs, user_input)
        history == format_conversation_history(appended, TRUE, 1)
        storyCall == StoryCall(history, sm, appended[Len(appended)].content, storyRes)
        stateCall == StateCall(history, storyRes, stateRes)
    IN  IF storyRes = Raise
        THEN [messages |-> appended, state_message |-> sm,
              outcome |-> "raise", ret |-> <<>>, calls |-> <<storyCall>>,
              tin |-> tin, tout |-> tout, pre |-> appended]
        ELSE IF stateRes = Raise
        THEN [messages |-> AppendResponse(appended, storyRes), state_message |-> sm,
              outcome |-> "raise", ret |-> <<>>, calls |-> <<storyCall, stateCall>>,
              tin |-> tin, tout |-> tout,
              pre |-> AppendResponse(appended, storyRes)]
        ELSE LET full == AppendResponse(appended, storyRes)
             IN  [messages |-> MaintainHistory(full, mh),
                  state_message |-> UpdateState(sm, stateRes),
                  outcome |-> "ok", ret |-> <<storyRes>>,
                  calls |-> <<storyCall, stateCall>>,
                  tin |-> tin + tok[1], tout |-> tout + tok[2], pre |-> full]

process_turn(user_input, storyRes, stateRes, tok, msgs, sm, tin, tout, mh) ==
    LET appended == AppendUserInput(msgs, user_input)
        history == format_conversation_history(appended, TRUE, 1)
        storyCall == StoryCall(history, sm, appended[Len(appended)].content, storyRes)
        stateCall == StateCall(history, storyRes, stateRes)
    IN  IF storyRes = Raise
        THEN [messages |-> appended, state_message |-> sm,
              outcome |-> "raise", ret |-> <<>>, calls |-> <<storyCall>>,
              tin |-> tin, tout |-> tout, pre |-> appended]
        ELSE IF stateRes = Raise
        THEN [messages |-> appended, state_message |-> sm,
              outcome |-> "raise", ret |-> <<>>, calls |-> <<storyCall, stateCall>>,
              tin |-> tin, tout |-> tout, pre |-> appended]
        ELSE LET full == AppendResponse(appended, storyRes)
             IN  [messages |-> MaintainHistory(full, mh),
                  state_message |-> UpdateState(sm, stateRes),
                  outcome |-> "ok", ret |-> <<storyRes>>,
                  calls |-> <<storyCall, stateCall>>,
                  tin |-> tin + tok[1], tout |-> tout + tok[2], pre |-> full]

-----------------------------------------------------------------------------
(* The engine as a state machine: a caller invokes either method, in any    *)
(* order, and the backend answers each invocation as it pleases.            *)

NoCall == [outcome |-> "ok", ret |-> <<>>, calls |-> <<>>, pre |-> <<>>,
           op |-> "none", arg |-> NoneValue]

\* config.max_history: a value below the minimum of 4 kept by process_turn,
\* and the values from 4 up
MaxHistories == {2} \cup 4..MaxHistoryTop

\* GameEngine.__init__
Init ==
    /\ max_history \in MaxHistories
    /\ messages = <<>>
    /\ state_message = NoneValue
    /\ total_input_tokens = 0
    /\ total_output_tokens = 0
    /\ initialized = FALSE
    /\ last = NoCall

\* The templates are re-read only when the options call returned, and the
\* story chain is reached only when they were read and a selection other than
\* the sentinel was given: each outcome is drawn only then.
InitializeGame ==
    \E character_selection \in Selections, optionsRes \in OptionOutcomes :
    \E promptRes \in (IF optionsRes # Raise THEN LoadOutcomes ELSE {Raise}) :
    \E storyRes \in (IF promptRes # Raise /\ ~NoSelection(character_selection)
                        /\ GeneratesStory(character_selection)
                     THEN BackendOutcomes ELSE {Raise}) :
    \E r \in {initialize_game(character_selection, optionsRes, promptRes,
                              storyRes, messages, state_message)} :
        /\ messages' = r.messages
        /\ initialized' = (initialized \/ r.outcome = "ok")
        /\ last' = [outcome |-> r.outcome, ret |-> r.ret, calls |-> r.calls,
                    pre |-> r.messages,
                    op |-> "initialize_game", arg |-> character_selection]
        /\ UNCHANGED <<max_history, state_message, total_input_tokens,
                       total_output_tokens>>

\* The state chain is reached only when the story chain returned, and the
\* callback's counts are read only when both returned.
ProcessTurn ==
    \E user_input \in UserInputs, storyRes \in BackendOutcomes :
    \E stateRes \in (IF storyRes # Raise THEN BackendOutcomes ELSE {Raise}) :
    \E tok \in (IF stateRes # Raise THEN TokenUse ELSE {<<0, 0>>}) :
    \E r \in {process_turn(user_input, storyRes, stateRes, tok, messages,
                           state_message, total_input_tokens,
                           total_output_tokens, max_history)} :
        /\ Len(messages) <= (IF initialized THEN MaxLen ELSE MaxLenUninitialized)
        /\ total_input_tokens + tok[1] <= MaxTokens
        /\ messages' = r.messages
        /\ state_message' = r.state_message
        /\ total_input_tokens' = r.tin
        /\ total_output_tokens' = r.tout
        /\ last' = [outcome |-> r.outcome, ret |-> r.ret, calls |-> r.calls,
                    pre |-> r.pre,
                    op |-> "process_turn", arg |-> user_input]
        /\ UNCHANGED <<max_history, initialized>>

Next == InitializeGame \/ ProcessTurn

Spec == Init /\ [][Next]_vars

-----------------------------------------------------------------------------
(* Vocabulary of the properties. *)

Min(a, b) == IF a <= b THEN a ELSE b

IsTurn == last.op = "process_turn"
TurnOk == IsTurn /\ last.outcome = "ok"
IsInit == last.op = "initialize_game"
InitOk == IsInit /\ last.outcome = "ok"

SystemIndices(msgs) == {i \in 1..Len(msgs) : msgs[i].role = "system"}

\* the triple initialize_game seeds the transcript with
Triple(options) ==
    <<[role |-> "system", content |-> SystemPrompt],
      [role |-> "human", content |-> SetupPrompt],
      [role |-> "ai", content |-> options]>>

StoryCalls(calls) == {i \in 1..Len(calls) : calls[i].chain = "story"}

RECURSIVE IsSubsequence(_, _)
IsSubsequence(s, t) ==
    IF s = <<>> THEN TRUE
    ELSE IF t = <<>> THEN FALSE
    ELSE IF Head(s) = Head(t) THEN IsSubsequence(Tail(s), Tail(t))
    ELSE IsSubsequence(s, Tail(t))

-----------------------------------------------------------------------------
(* C1.  After a process_turn in which truncation is applied (the transcript *)
(* after the two appends is longer than max_history), the transcript has at *)
(* most max(4, max_history) entries and still holds the system message.     *)
(* Stated for engines on which initialize_game has returned, where the      *)
(* system message exists.  The code keeps index 0 AND the last              *)
(* max(4, max_history) entries, one more than the budget.                   *)
C1_TruncatedWithinBudget ==
    (initialized /\ TurnOk /\ Len(last.pre) > max_history)
        => /\ Len(messages) <= Max(4, max_history)
           /\ SystemIndices(messages) # {}

-----------------------------------------------------------------------------
(* C2.  Once initialize_game has returned, the entry at index 0 of the      *)
(* transcript is the system message in every reachable state, whatever      *)
(* turns (failed or not, truncating or not) and initializations follow.     *)
C2_SystemAtIndexZero ==
    initialized => /\ Len(messages) >= 1
                   /\ messages[1] = [role |-> "system", content |-> SystemPrompt]

\* a turn on an initialized engine whose truncation dropped entries
C2_Witness ==
    /\ initialized
    /\ TurnOk
    /\ Len(messages) < Len(last.pre)
    /\ messages[1].role = "system"

-----------------------------------------------------------------------------
(* C3.  initialize_game("Start the adventure!") returns initial_story ""    *)
(* and makes no story-continuation call.                                    *)
(* C3 as claimed: it leaves the transcript equal to the initial triple.     *)
C3_SentinelLeavesTriple ==
    (InitOk /\ last.arg = Sentinel)
        => /\ last.ret[2] = ""
           /\ StoryCalls(last.calls) = {}
           /\ messages = Triple(last.ret[1])

(* C3 as the code has it: the transcript is the initial triple followed by  *)
(* one user message carrying the sentinel selection.                        *)
C3_SentinelAppendsSelection ==
    (InitOk /\ last.arg = Sentinel)
        => /\ last.ret[2] = ""
           /\ StoryCalls(last.calls) = {}
           /\ messages = Triple(last.ret[1])
                           \o <<[role |-> "human", content |-> Sentinel]>>

C3_Witness ==
    /\ InitOk
    /\ last.arg = Sentinel
    /\ Len(messages) = 4

-----------------------------------------------------------------------------
(* C4.  When a backend invocation fails in process_turn (story              *)
(* continuation or state extraction), the call raises, and the engine is    *)
(* left with the previous transcript plus the one user message, the same    *)
(* state summary and the same token totals.                                 *)
C4_FailedTurn ==
    [][ (last'.op = "process_turn"
           /\ \E i \in 1..Len(last'.calls) : last'.calls[i].result = Raise)
        => /\ last'.outcome = "raise"
           /\ messages' = Append(messages, [role |-> "human", content |-> last'.arg])
           /\ state_message' = state_message
           /\ total_input_tokens' = total_input_tokens
           /\ total_output_tokens' = total_output_tokens ]_vars

\* state extraction failed after the story call returned
C4_Witness ==
    /\ initialized
    /\ IsTurn
    /\ last.outcome = "raise"
    /\ Len(last.calls) = 2
    /\ last.calls[2].result = Raise
    /\ state_message # NoneValue

-----------------------------------------------------------------------------
(* C5.  A successful process_turn leaves the state summary equal to the     *)
(* output of its state-extraction call, whatever the summary was before;    *)
(* no other call (failed process_turn, initialize_game) changes it.         *)
C5_StateSummary ==
    [][ IF last'.op = "process_turn" /\ last'.outcome = "ok"
        THEN /\ last'.calls[Len(last'.calls)].chain = "state"
             /\ state_message' = last'.calls[Len(last'.calls)].result
        ELSE state_message' = state_message ]_vars

\* an earlier summary "x" was replaced by this turn's "y"
C5_Witness ==
    /\ TurnOk
    /\ last.calls[1].args[2] = "x"
    /\ last.calls[2].result = "y"
    /\ state_message = "y"

-----------------------------------------------------------------------------
(* C6.  process_turn(user_input) appends exactly one user message carrying  *)
(* user_input; a successful one then appends exactly one assistant message  *)
(* carrying the story text, which is the value it returns: before           *)
(* truncation the transcript is the starting one plus these two.            *)
C6_AppendsPair ==
    [][ last'.op = "process_turn"
        => IF last'.outcome = "ok"
           THEN /\ Len(last'.pre) = Len(messages) + 2
                /\ last'.pre = messages
                     \o <<[role |-> "human", content |-> last'.arg],
                          [role |-> "ai", content |-> last'.calls[1].result]>>
                /\ last'.ret = <<last'.pre[Len(last'.pre)].content>>
           ELSE /\ last'.pre = messages
                     \o <<[role |-> "human", content |-> last'.arg]>>
                /\ messages' = last'.pre ]_vars

C6_Witness ==
    /\ initialized
    /\ TurnOk
    /\ last.arg = "b"
    /\ last.ret = <<"y">>
    /\ Len(last.pre) = 7

-----------------------------------------------------------------------------
(* C7.  At the end of a successful process_turn, a transcript longer than   *)
(* max_history becomes its entry at index 0 followed by its last            *)
(* max(4, max_history) entries in order (all of them, when it has fewer),   *)
(* and a transcript within max_history is left as it is.  With              *)
(* max_history = 4, a turn that brings the transcript to 7 leaves 5.        *)
C7_Truncation ==
    TurnOk =>
        LET pre == last.pre
            keep == Min(Max(4, max_history), Len(pre))
        IN  /\ IF Len(pre) > max_history
               THEN /\ Len(messages) = 1 + keep
                    /\ messages[1] = pre[1]
                    /\ \A i \in 1..keep : messages[1 + i] = pre[Len(pre) - keep + i]
               ELSE messages = pre
            /\ (max_history = 4 /\ Len(pre) = 7) => Len(messages) = 5

C7_Witness ==
    /\ initialized
    /\ TurnOk
    /\ max_history = 4
    /\ Len(last.pre) = 7
    /\ Len(messages) = 5

-----------------------------------------------------------------------------
(* C8.  initialize_game with an absent or empty selection leaves the        *)
(* transcript as the initial triple and returns initial_story "".  With a   *)
(* selection other than the sentinel it leaves the triple followed by       *)
(* user(selection), user(start directive), assistant(story), invokes story  *)
(* continuation once, with a history that starts after the system message,  *)
(* and returns that story as initial_story.                                 *)

\* what a returned initialize_game(selection), selection present and not the
\* sentinel, leaves behind, the state summary it hands over aside
C8_StoryPath ==
    /\ messages = Triple(last.ret[1])
                    \o <<[role |-> "human", content |-> last.arg],
                         [role |-> "human", content |-> StartDirective],
                         [role |-> "ai", content |-> last.ret[2]]>>
    /\ Cardinality(StoryCalls(last.calls)) = 1
    /\ Len(last.calls) = 2
    /\ last.calls[2].chain = "story"
    /\ last.calls[2].args[1] = << <<"User", SetupPrompt>>,
                                  <<"Assistant", last.ret[1]>>,
                                  <<"User", last.arg>>,
                                  <<"User", StartDirective>> >>
    /\ last.calls[2].args[3] = StartDirective
    /\ last.ret[2] = last.calls[2].result

C8_NoSelectionPath ==
    /\ messages = Triple(last.ret[1])
    /\ last.ret[2] = ""
    /\ StoryCalls(last.calls) = {}

(* C8 as claimed: the story call is handed the empty/initial state summary. *)
(* initialize_game does not reset the summary of earlier turns.             *)
C8_InitialSummary ==
    InitOk =>
        /\ last.arg \in {NoneValue, ""} => C8_NoSelectionPath
        /\ last.arg \notin {NoneValue, "", Sentinel}
             => /\ C8_StoryPath
                /\ last.calls[2].args[2] = NoneValue

(* C8 as the code has it: the story call is handed the engine's current     *)
(* state summary, which is the initial one only while no process_turn has   *)
(* succeeded on this engine.                                                *)
C8_CurrentSummary ==
    InitOk =>
        /\ last.arg \in {NoneValue, ""} => C8_NoSelectionPath
        /\ last.arg \notin {NoneValue, "", Sentinel}
             => /\ C8_StoryPath
                /\ last.calls[2].args[2] = state_message
                /\ (total_input_tokens = 0 /\ state_message = NoneValue)
                     \/ state_message \in BackendTexts

\* a game started with a selection on an engine that has played a turn
C8_Witness ==
    /\ InitOk
    /\ last.arg = "a"
    /\ Len(messages) = 6
    /\ state_message = "y"

\* the empty selection
C8_WitnessEmpty ==
    /\ InitOk
    /\ last.arg = ""
    /\ Len(messages) = 3

-----------------------------------------------------------------------------
(* C9.  In every process_turn the backend calls are sequential and ordered: *)
(* story continuation first, after the user message was appended, with the  *)
(* transcript from index 1 on as history; state extraction only after the   *)
(* story call returned.  A successful turn makes exactly these two calls;   *)
(* a turn whose story call fails makes no state-extraction call.            *)

\* the transcript as it stood when the story call was made
C9_Appended ==
    IF last.outcome = "ok" THEN SubSeq(last.pre, 1, Len(last.pre) - 1) ELSE last.pre

C9_Ordering ==
    LET calls == last.calls
        appended == C9_Appended
        history == calls[1].args[1]
    IN  /\ Len(calls) \in {1, 2}
        /\ calls[1].chain = "story"
        /\ calls[1].args[3] = last.arg
        \* the history is the transcript without index 0
        /\ Len(history) = Len(appended) - 1
        /\ \A i \in 1..Len(history) :
              history[i] = <<IF appended[i + 1].role = "human"
                             THEN "User" ELSE "Assistant",
                             appended[i + 1].content>>
        /\ calls[1].result = Raise => Len(calls) = 1
        /\ calls[1].result # Raise
             => /\ Len(calls) = 2
                /\ calls[2].chain = "state"
                /\ calls[2].args = <<history, calls[1].result>>
        /\ last.outcome = "ok"
             <=> (Len(calls) = 2 /\ \A i \in 1..2 : calls[i].result # Raise)

(* C9 as claimed: the history always includes the user message just         *)
(* appended.                                                                *)
C9_HistoryHasUserMessage ==
    IsTurn =>
        /\ C9_Ordering
        /\ LET history == last.calls[1].args[1]
           IN  /\ history # <<>>
               /\ history[Len(history)] = <<"User", last.arg>>

(* C9 as the code has it: the history is the transcript from index 1 on, so *)
(* it includes the user message exactly when the transcript was not empty   *)
(* before the call (as it is once initialize_game has returned); on an      *)
(* empty transcript the user message is index 0 and the history is empty.   *)
C9_HistoryFromIndexOne ==
    IsTurn =>
        /\ C9_Ordering
        /\ LET history == last.calls[1].args[1]
           IN  IF Len(C9_Appended) >= 2
               THEN history[Len(history)] = <<"User", last.arg>>
               ELSE history = <<>>
        /\ initialized => Len(C9_Appended) >= 2

\* the story call failed on an initialized engine: no state-extraction call
C9_Witness ==
    /\ initialized
    /\ IsTurn
    /\ last.calls[1].result = Raise
    /\ Len(last.calls) = 1
    /\ Len(last.calls[1].args[1]) = 3

-----------------------------------------------------------------------------
(* C10.  On an engine on which initialize_game has returned, for every      *)
(* max_history (values below 4 included), truncation neither duplicates a   *)
(* message nor lengthens the transcript: the transcript after truncation    *)
(* is a subsequence of the one before, and the system message occurs        *)
(* exactly once, at index 0, in every reachable state.                      *)
C10_NoDuplication ==
    initialized =>
        /\ SystemIndices(messages) = {1}
        /\ TurnOk => /\ Len(messages) <= Len(last.pre)
                     /\ IsSubsequence(messages, last.pre)

\* max_history below 4, and the truncation dropped entries
C10_Witness ==
    /\ initialized
    /\ TurnOk
    /\ max_history < 4
    /\ Len(last.pre) > max_history
    /\ Len(messages) < Len(last.pre)

-----------------------------------------------------------------------------
(* C11.  initialize_game, called in any reachable state, replaces the       *)
(* transcript wholesale (nothing of the earlier transcript is left) and     *)
(* leaves the state summary and the token totals as they were; the token    *)
(* totals change only in a process_turn in which both backend calls         *)
(* succeed, and never decrease.                                             *)

\* the call raised before it made any story call: at the options call, or at
\* the re-reading of the prompt templates that follows it
C11_RaisedBeforeAssignment(obs) ==
    /\ obs.outcome = "raise"
    /\ StoryCalls(obs.calls) = {}

\* the messages an initialize_game call put in the transcript itself, from its
\* argument and the texts its backend calls returned (none, when it raised
\* before line 79)
C11_CreatedByCall(obs) ==
    IF C11_RaisedBeforeAssignment(obs) THEN <<>>
    ELSE LET seeded == Triple(obs.calls[1].result)
             selection == [role |-> "human", content |-> obs.arg]
             directive == [role |-> "human", content |-> StartDirective]
         IN  IF obs.arg \in {NoneValue, ""} THEN seeded
             ELSE IF obs.arg = Sentinel THEN seeded \o <<selection>>
             ELSE IF obs.calls[2].result = Raise
                  THEN seeded \o <<selection, directive>>
                  ELSE seeded \o <<selection, directive,
                                   [role |-> "ai", content |-> obs.calls[2].result]>>

\* what the claim says of the summary and of the token totals
C11_Frame ==
    /\ last'.op = "initialize_game"
         => /\ state_message' = state_message
            /\ total_input_tokens' = total_input_tokens
            /\ total_output_tokens' = total_output_tokens
    /\ (total_input_tokens' # total_input_tokens
          \/ total_output_tokens' # total_output_tokens)
         => /\ last'.op = "process_turn"
            /\ last'.outcome = "ok"
            /\ Len(last'.calls) = 2
            /\ \A i \in 1..2 : last'.calls[i].result # Raise
    /\ total_input_tokens' >= total_input_tokens
    /\ total_output_tokens' >= total_output_tokens

(* C11 as claimed: after every initialize_game call the transcript holds    *)
(* only what that call created.                                             *)
C11_AlwaysReplaces ==
    [][ /\ last'.op = "initialize_game" => messages' = C11_CreatedByCall(last')
        /\ C11_Frame ]_vars

(* C11 as the code has it: the transcript is replaced once the call has     *)
(* reached the assignment of line 79, that is once the character-options    *)
(* call has returned and the two prompt templates have been read again      *)
(* (also when the story call raises afterwards); a call that raises before  *)
(* that, at the options call or at a template, leaves the earlier           *)
(* transcript as it was.                                                    *)
C11_ReplacesOnceAssigned ==
    [][ /\ last'.op = "initialize_game"
           => IF C11_RaisedBeforeAssignment(last')
              THEN messages' = messages
              ELSE /\ messages' = C11_CreatedByCall(last')
                   /\ Len(messages') >= 3
        /\ C11_Frame ]_vars

\* the options call returned, a template could not be read: the call raised
\* and the transcript of the game played before is still there
C11_WitnessTemplateRaise ==
    /\ IsInit
    /\ last.outcome = "raise"
    /\ last.calls = <<[result |-> "o", chain |-> "character", args |-> <<>>]>>
    /\ Len(messages) = 5
    /\ messages[5].role = "ai"

\* a game started again after a turn that counted tokens: the transcript is
\* the new game's alone, the summary and the totals are the old game's
C11_Witness ==
    /\ InitOk
    /\ last.arg = "a"
    /\ messages = C11_CreatedByCall(last)
    /\ Len(messages) = 6
    /\ state_message = "x"
    /\ total_input_tokens = 2
    /\ total_output_tokens = 1

====
